---------------------------- MODULE Spec2Model ----------------------------
(***************************************************************************)
(* The catchment-overlap analysis of the McDonald's outlet locator          *)
(* (components/OutletMap.js): the validity filter, the haversine distance,  *)
(* the pairwise overlap scan and the React effect that recomputes the       *)
(* displayed list, the flagged set and the map centre whenever the          *)
(* `outlets` prop changes; and the Home page (pages/index.js) that renders *)
(* it: its state, its input and button events, and its handlers            *)
(* handleSearch, handleAISearch, handleRescrape and fetchOutlets, each      *)
(* split at the await of its request.                                      *)
(*                                                                         *)
(* Numbers.  TLC has 32-bit integers and no floating point, so the         *)
(* IEEE-754 arithmetic of calculateDistance is modelled in decimal fixed   *)
(* point, every operation truncating toward zero (so that, as in IEEE      *)
(* arithmetic, negating an operand negates the result):                    *)
(*   deg4  degrees       x 10^4   (coordinates: 3.1390 is 31390)           *)
(*   rad8  radians       x 10^8   (angles)                                 *)
(*   u9    pure numbers  x 10^9   (sines, cosines, the haversine a)        *)
(*   m     kilometres    x 10^3   (distances, i.e. metres)                 *)
(* The haversine term a is kept to 18 decimals (two limbs of nine), which   *)
(* keeps distances within about 2 m of the double-precision result.        *)
(* Non-finite values (NaN, Infinity) and the non-number values null,       *)
(* undefined, true and a string that is no numeral are carried as tagged   *)
(* records.                                                                *)
(***************************************************************************)
EXTENDS Integers, Sequences, FiniteSets, Bags, TLC

---------------------------------------------------------------------------
(* JavaScript values of a coordinate field *)

Num(n) == [k |-> "num", v |-> n]
NaN == [k |-> "NaN", v |-> 0]
Infinity == [k |-> "Infinity", v |-> 0]
NegInfinity == [k |-> "-Infinity", v |-> 0]
null == [k |-> "null", v |-> 0]
undefined == [k |-> "undefined", v |-> 0]
true == [k |-> "boolean", v |-> 1]
\* A string that does not parse as a number, such as "N/A"
Text == [k |-> "string", v |-> 0]

\* ToNumber, as applied by the operators - and * and by isNaN:
\* null is 0, undefined is NaN, true is 1 (10^4 in deg4), a string that is
\* no numeral is NaN, a number is itself.
ToNumber(x) ==
    CASE x.k = "null" -> Num(0)
      [] x.k = "undefined" -> NaN
      [] x.k = "boolean" -> Num(x.v * 10^4)
      [] x.k = "string" -> NaN
      [] OTHER -> x

\* ToBoolean, as applied by &&: 0, NaN, null and undefined are falsy; true
\* and a non-empty string are truthy.
Truthy(x) ==
    CASE x.k = "num" -> x.v # 0
      [] x.k \in {"Infinity", "-Infinity"} -> TRUE
      [] x.k = "boolean" -> x.v = 1
      [] x.k = "string" -> TRUE
      [] OTHER -> FALSE

\* The global isNaN(x): ToNumber(x) is NaN.
isNaN(x) == ToNumber(x).k = "NaN"

IsFinite(x) == ToNumber(x).k = "num"

---------------------------------------------------------------------------
(* Fixed-point arithmetic *)

ONE == 10^9

Abs(x) == IF x < 0 THEN -x ELSE x
Sgn(x) == IF x < 0 THEN -1 ELSE 1

\* The exact product of a, b >= 0 as <<q, r>> with a * b = q * ONE + r and
\* 0 <= r < ONE, computed on base-1000 limbs so that no intermediate value
\* leaves 32 bits.
MulMod9(a, b) ==
    LET a2 == a \div 10^6
        a1 == (a \div 1000) % 1000
        a0 == a % 1000
        b2 == b \div 10^6
        b1 == (b \div 1000) % 1000
        b0 == b % 1000
        t0 == a0 * b0
        t1 == a1 * b0 + a0 * b1 + (t0 \div 1000)
        t2 == a2 * b0 + a1 * b1 + a0 * b2 + (t1 \div 1000)
    IN  << a2 * b2 * 1000 + a2 * b1 + a1 * b2 + (t2 \div 1000),
           (t2 % 1000) * 10^6 + (t1 % 1000) * 1000 + (t0 % 1000) >>

\* The product of two u9 numbers, in u9.
Mul9(a, b) == Sgn(a) * Sgn(b) * MulMod9(Abs(a), Abs(b))[1]

\* Two-limb numbers <<hi, lo>> = (hi * ONE + lo) x 10^-18, 0 <= lo < ONE:
\* the haversine term a, whose squares of small sines need 18 decimals.
Norm2(hi, lo) == IF lo >= ONE THEN <<hi + 1, lo - ONE>> ELSE <<hi, lo>>
Add2(p, q) == Norm2(p[1] + q[1], p[2] + q[2])
Leq2(p, q) == p[1] < q[1] \/ (p[1] = q[1] /\ p[2] <= q[2])
\* p - q for q <= p
Sub2(p, q) ==
    IF p[2] >= q[2] THEN <<p[1] - q[1], p[2] - q[2]>>
    ELSE <<p[1] - q[1] - 1, p[2] + ONE - q[2]>>
\* s * s for a u9 number s
Square2(s) == MulMod9(Abs(s), Abs(s))
\* p * f for a u9 number f >= 0
Scale2(p, f) == Add2(MulMod9(p[1], f), <<0, MulMod9(p[2], f)[1]>>)
One2 == <<ONE, 0>>

\* Math.PI in rad8 and its multiples (rad8, and rad9 where they fit).
PI8 == 314159265
HALF_PI8 == 157079633
TWO_PI8 == 628318531
HALF_PI9 == 1570796327
QUARTER_PI9 == 785398163
\* tan(pi/8) in u9
TAN_PI_8 == 414213562
\* Math.PI / 180 is 0.0174532925199: rad8 per deg4 is 174 + 0.532925199
RAD_PER_DEG_INT == 174
RAD_PER_DEG_FRAC == 532925199

\* x * Math.PI / 180, from deg4 to rad8.
ToRadians(d) ==
    Sgn(d) * (RAD_PER_DEG_INT * Abs(d) + MulMod9(Abs(d), RAD_PER_DEG_FRAC)[1])

\* x / 2
Half(x) == Sgn(x) * (Abs(x) \div 2)

\* Math.sin and Math.cos: range reduction to [0, pi/4], then the Taylor
\* polynomial in Horner form (the shape of a libm kernel).
RECURSIVE Horner(_, _, _)
Horner(z, ks, t) ==
    IF ks = <<>> THEN t
    ELSE Horner(z, Tail(ks), ONE - (Mul9(z, t) \div Head(ks)))

SinK(x) == Mul9(x, Horner(Mul9(x, x), <<156, 110, 72, 42, 20, 6>>, ONE))
CosK(x) == Horner(Mul9(x, x), <<132, 90, 56, 30, 12, 2>>, ONE)

\* sin y for 0 <= y < pi (rad8), in u9
SinQ(y) ==
    LET w == IF y > HALF_PI8 THEN PI8 - y ELSE y
    IN  IF 2 * w > HALF_PI8 THEN CosK((HALF_PI8 - w) * 10) ELSE SinK(w * 10)

\* sin x for x >= 0 (rad8), in u9
SinPos(x) ==
    LET y == x % TWO_PI8
    IN  IF y >= PI8 THEN -SinQ(y - PI8) ELSE SinQ(y)

Sin(x) == Sgn(x) * SinPos(Abs(x))
Cos(x) == SinPos(Abs(x) + HALF_PI8)

\* The largest t in acc .. acc + 32^(k+1) - 1 with t * t <= p (isSqrt) or
\* with t * x <= y (otherwise), p and y two-limb: one base-32 digit at a time.
RECURSIVE DigitSearch(_, _, _, _, _, _)
DigitSearch(isSqrt, p, x, y, k, acc) ==
    LET Fits(t) == IF isSqrt THEN Leq2(MulMod9(t, t), p) ELSE Leq2(MulMod9(t, x), y)
        d == CHOOSE e \in 0..31 :
                 /\ Fits(acc + e * 32^k)
                 /\ e < 31 => ~Fits(acc + (e + 1) * 32^k)
        next == acc + d * 32^k
    IN  IF k = 0 THEN next ELSE DigitSearch(isSqrt, p, x, y, k - 1, next)

\* Math.sqrt of a two-limb number p >= 0, in u9: the largest y with y * y <= p.
Sqrt(p) == DigitSearch(TRUE, p, 0, <<0, 0>>, 5, 0)

\* The quotient y / x of two u9 numbers 0 <= y <= x, x > 0, in u9: the
\* largest t with t * x <= y * ONE.
Div9(y, x) == DigitSearch(FALSE, <<0, 0>>, x, <<y, 0>>, 5, 0)

\* Math.atan2(y, x) for y, x >= 0 (u9), not both 0, in rad9.
RECURSIVE AtanHorner(_, _, _)
AtanHorner(z, ks, t) ==
    IF ks = <<>> THEN t
    ELSE AtanHorner(z, Tail(ks), (ONE \div Head(ks)) - Mul9(z, t))

AtanK(u) ==
    Mul9(u, AtanHorner(Mul9(u, u), <<21, 19, 17, 15, 13, 11, 9, 7, 5, 3, 1>>, ONE \div 23))

AtanUnit(t) ==
    IF t <= TAN_PI_8 THEN AtanK(t)
    ELSE QUARTER_PI9 - AtanK(Div9((ONE - t) \div 2, (ONE + t) \div 2))

Atan2(y, x) ==
    IF x >= y THEN AtanUnit(Div9(y, x))
    ELSE HALF_PI9 - AtanUnit(Div9(x, y))

---------------------------------------------------------------------------
(* calculateDistance *)

\* Earth's radius in kilometres
R == 6371

\* The haversine distance of two points given in finite degrees (deg4), in
\* metres; NaN when rounding takes a outside [0, 1] (Math.sqrt of a negative).
Haversine(lat1, lon1, lat2, lon2) ==
    LET dLat == ToRadians(lat2 - lat1)
        dLon == ToRadians(lon2 - lon1)
        sinLat2 == Square2(Sin(Half(dLat)))
        cosCos == Mul9(Cos(ToRadians(lat1)), Cos(ToRadians(lat2)))
        cosSinLon2 == Scale2(Square2(Sin(Half(dLon))), Abs(cosCos))
        \* a = sin^2(dLat/2) + cos(lat1) cos(lat2) sin^2(dLon/2), and whether a >= 0
        aNeg == cosCos < 0 /\ ~Leq2(cosSinLon2, sinLat2)
        a == IF cosCos >= 0 THEN Add2(sinLat2, cosSinLon2) ELSE Sub2(sinLat2, cosSinLon2)
    IN  IF aNeg \/ ~Leq2(a, One2) THEN NaN
        ELSE LET c == Atan2(Sqrt(a), Sqrt(Sub2(One2, a))) \div 5   \* 2 * atan2, in rad8
             IN  Num((c \div 10^5) * R + (((c % 10^5) * R) \div 10^5))

\* Mutant of calculateDistance: the first point's latitude taken for both
\* points.
calculateDistanceSkewed(lat1, lon1, lat2, lon2) ==
    IF IsFinite(lat1) /\ IsFinite(lon1) /\ IsFinite(lat2) /\ IsFinite(lon2)
    THEN Haversine(ToNumber(lat1).v, ToNumber(lon1).v, ToNumber(lat1).v, ToNumber(lon2).v)
    ELSE NaN

\* calculateDistance(lat1, lon1, lat2, lon2), in metres.  The subtractions
\* apply ToNumber; Math.sin and Math.cos of a NaN or of an infinity are NaN,
\* and a NaN operand makes every later result NaN, so a non-finite
\* coordinate yields NaN.
calculateDistance(lat1, lon1, lat2, lon2) ==
    IF IsFinite(lat1) /\ IsFinite(lon1) /\ IsFinite(lat2) /\ IsFinite(lon2)
    THEN Haversine(ToNumber(lat1).v, ToNumber(lon1).v, ToNumber(lat2).v, ToNumber(lon2).v)
    ELSE NaN

---------------------------------------------------------------------------
(* Outlet records and the directories the lists are drawn from *)

Outlet(id, lat, lon) == [id |-> id, latitude |-> lat, longitude |-> lon]

\* Kuala Lumpur.  Distances from outlet 1: outlet 2 at 1421 m, outlet 3 at
\* exactly 10000 m, outlet 4 at 9999 m, outlet 5 (Penang) about 294 km away;
\* outlets 3 and 4 are within 9 km of outlet 2.
CoreDirectory ==
    { Outlet(1, Num(31390), Num(1016869)),
      Outlet(2, Num(31480), Num(1016960)),
      Outlet(3, Num(31460), Num(1017767)),
      Outlet(4, Num(31459), Num(1017767)),
      Outlet(5, Num(54141), Num(1003288)) }

\* Two valid outlets 2.2 km apart just north of the equator, and three
\* records with a NaN, a null and a missing coordinate beside them.
InvalidDirectory ==
    { Outlet(1, Num(300), Num(1016869)),
      Outlet(2, Num(500), Num(1016869)),
      Outlet(3, NaN, Num(1016869)),
      Outlet(4, null, Num(1016869)),
      Outlet(5, Num(300), undefined) }

\* The same two valid outlets at the antimeridian, with an outlet on the
\* equator (latitude 0), one at longitude 180.02 and one at latitude Infinity.
RangeDirectory ==
    { Outlet(1, Num(300), Num(1799800)),
      Outlet(2, Num(500), Num(1799800)),
      Outlet(3, Num(0), Num(1799800)),
      Outlet(4, Num(300), Num(1800200)),
      Outlet(5, Infinity, Num(1799800)) }

\* Two valid outlets 3.3 km apart at latitude 1, with records whose
\* latitude is the boolean true, a string that is no numeral, and null.
MixedDirectory ==
    { Outlet(1, Num(10000), Num(1016869)),
      Outlet(2, Num(10300), Num(1016869)),
      Outlet(3, true, Num(1016869)),
      Outlet(4, Text, Num(1016869)),
      Outlet(5, null, Num(1016869)) }

Directories == {CoreDirectory, InvalidDirectory, RangeDirectory, MixedDirectory}

\* The longest outlet list
MaxLen == 3

\* The lists of at most MaxLen outlets of a directory, ids unique.
ListsOf ==
    [ d \in Directories |->
        { l \in UNION { [1..n -> d] : n \in 0..MaxLen } :
            \A i, j \in DOMAIN l : i # j => l[i].id # l[j].id } ]

Position(o) == <<o.latitude, o.longitude>>

\* calculateDistance, tabulated over the positions of the directories
\* (the @@ makes TLC evaluate the table once, as an explicit function).
DistanceTable ==
    LET positions == { Position(o) : o \in UNION Directories }
    IN  [ p \in positions \X positions |->
            calculateDistance(p[1][1], p[1][2], p[2][1], p[2][2]) ] @@ <<>>

---------------------------------------------------------------------------
(* findIntersectingOutlets *)

\* const catchmentRadius = 5; // 5km radius
catchmentRadius == 5

\* Mutant of circlesIntersect: distance <= radius * 2.
circlesIntersectInclusive(distance, radius) ==
    distance.k = "num" /\ distance.v <= radius * 2 * 10^3

\* Mutant of circlesIntersect: the comparison reversed, distance > radius * 2.
circlesIntersectReversed(distance, radius) ==
    distance.k = "num" /\ distance.v > radius * 2 * 10^3

\* distance < radius * 2, the distance in metres and the radius in
\* kilometres; a comparison with NaN is false.
circlesIntersect(distance, radius) ==
    distance.k = "num" /\ distance.v < radius * 2 * 10^3

\* for (let j = ...; j < outletList.length; j++) { ... }, from j on
RECURSIVE innerLoop(_, _, _, _, _)

\* Mutant of innerLoop: a break after the first overlapping j.
innerLoopBreak(outletList, i, j, intersecting, radius) ==
    IF j > Len(outletList) THEN intersecting
    ELSE IF circlesIntersect(DistanceTable[<<Position(outletList[i]), Position(outletList[j])>>], radius)
         THEN intersecting \cup {outletList[i].id, outletList[j].id}
         ELSE innerLoop(outletList, i, j + 1, intersecting, radius)

\* Mutant of innerLoop: only outletList[i].id is added.
innerLoopOneSided(outletList, i, j, intersecting, radius) ==
    IF j > Len(outletList) THEN intersecting
    ELSE innerLoop(outletList, i, j + 1,
                   IF circlesIntersect(DistanceTable[<<Position(outletList[i]), Position(outletList[j])>>], radius)
                   THEN intersecting \cup {outletList[i].id}
                   ELSE intersecting,
                   radius)

\* Mutant of innerLoop: only the next outlet, j = i + 1, is compared.
innerLoopAdjacent(outletList, i, j, intersecting, radius) ==
    IF j > Len(outletList) \/ j > i + 1 THEN intersecting
    ELSE innerLoop(outletList, i, j + 1,
                   IF circlesIntersect(DistanceTable[<<Position(outletList[i]), Position(outletList[j])>>], radius)
                   THEN intersecting \cup {outletList[i].id, outletList[j].id}
                   ELSE intersecting,
                   radius)

innerLoop(outletList, i, j, intersecting, radius) ==
    IF j > Len(outletList) THEN intersecting
    ELSE LET distance == DistanceTable[<<Position(outletList[i]), Position(outletList[j])>>]
         IN  innerLoop(outletList, i, j + 1,
                       IF circlesIntersect(distance, radius)
                       THEN intersecting \cup {outletList[i].id, outletList[j].id}
                       ELSE intersecting,
                       radius)

\* for (let i = ...; i < outletList.length; i++) { for (let j = i + 1; ...) }, from i on
RECURSIVE outerLoop(_, _, _, _)

\* Mutant of outerLoop: the inner loop starts at j = i.
outerLoopSelf(outletList, i, intersecting, radius) ==
    IF i > Len(outletList) THEN intersecting
    ELSE outerLoop(outletList, i + 1,
                   innerLoop(outletList, i, i, intersecting, radius), radius)

outerLoop(outletList, i, intersecting, radius) ==
    IF i > Len(outletList) THEN intersecting
    ELSE outerLoop(outletList, i + 1,
                   innerLoop(outletList, i, i + 1, intersecting, radius), radius)

\* The scan for a given catchment radius (km).
intersectingWithin(outletList, radius) == outerLoop(outletList, 1, {}, radius)

findIntersectingOutlets(outletList) == intersectingWithin(outletList, catchmentRadius)

---------------------------------------------------------------------------
(* The OutletMap component *)

\* MAP_CONFIG.DEFAULT_CENTER: [3.1390, 101.6869]
DEFAULT_CENTER == <<Num(31390), Num(1016869)>>

\* Mutant of isValidOutlet: the truthiness tests dropped.
isValidOutletNotNaN(outlet) ==
    ~isNaN(outlet.latitude) /\ ~isNaN(outlet.longitude)

\* outlet.latitude && outlet.longitude &&
\* !isNaN(outlet.latitude) && !isNaN(outlet.longitude)
isValidOutlet(outlet) ==
    /\ Truthy(outlet.latitude)
    /\ Truthy(outlet.longitude)
    /\ ~isNaN(outlet.latitude)
    /\ ~isNaN(outlet.longitude)

VARIABLES
    directory,            \* the records the outlet lists are drawn from
    initialOutlets,       \* the `outlets` prop
    outlets,              \* state: the displayed outlets
    mapCenter,            \* state: the map centre
    intersectingOutlets,  \* state: the flagged ids
    effectPending,        \* the effect is scheduled: its dependencies changed in the last render
    discarded             \* history: the flagged set the last run of the effect replaced

\* The state of the Home page, which renders
\* <OutletMap outlets={outlets} center={mapCenter} />.  Home's `outlets` is
\* the variable initialOutlets above; Home's `mapCenter` is `center`.
VARIABLES
    center,               \* Home state mapCenter, passed as the `center` prop
    searchTerm,
    isSearching,
    isRescraping,
    isFetchingOutlets,
    error,
    aiSearchQuery,
    isSearchingAI,
    aiResponse,
    searchError,
    requests,             \* the bag of handler invocations suspended at an await
    inputs                \* what the user can type and the outlets endpoint can return

mapVars == <<directory, initialOutlets, outlets, mapCenter, intersectingOutlets,
             effectPending, discarded>>

homeVars == <<center, searchTerm, isSearching, isRescraping, isFetchingOutlets,
              error, aiSearchQuery, isSearchingAI, aiResponse, searchError, requests,
              inputs>>

\* History, kept for the properties only
VARIABLES
    clearedByDelete,      \* a delete-all has cleared the outlets and no scrape was started since
    lastQuery             \* the query of the latest AI search submitted

historyVars == <<clearedByDelete, lastQuery>>

vars == <<mapVars, homeVars, historyVars>>

\* The first render: useState(initialOutlets), useState(DEFAULT_CENTER),
\* useState(new Set()); the effect runs after it.
Mount(dir) ==
    /\ directory = dir
    /\ initialOutlets \in ListsOf[dir]
    /\ outlets = initialOutlets
    /\ mapCenter = DEFAULT_CENTER
    /\ intersectingOutlets = {}
    /\ effectPending = TRUE
    /\ discarded = {}

\* Home's useState values: { lat: 3.1390, lng: 101.6869 }, '', false, null;
\* no request is in flight and Home takes no input.
HomeInitial ==
    /\ center = <<Num(31390), Num(1016869)>>
    /\ searchTerm = ""
    /\ isSearching = FALSE
    /\ isRescraping = FALSE
    /\ isFetchingOutlets = FALSE
    /\ error = null
    /\ aiSearchQuery = ""
    /\ isSearchingAI = FALSE
    /\ aiResponse = ""
    /\ searchError = null
    /\ requests = EmptyBag
    /\ inputs = [terms |-> {}, queries |-> {}, lists |-> {}]
    /\ clearedByDelete = FALSE
    /\ lastQuery = ""

\* The parent renders OutletMap with a new array as the `outlets` prop.
\* React runs the effects of a render before the next render.
ChangeOutlets ==
    /\ ~effectPending
    /\ \E l \in ListsOf[directory] : initialOutlets' = l
    /\ effectPending' = TRUE
    /\ discarded' = {}
    /\ UNCHANGED <<directory, outlets, mapCenter, intersectingOutlets>>
    /\ UNCHANGED <<homeVars, historyVars>>

\* Mutant of RunEffect: the new flags are merged into the old ones.
RunEffectMerging ==
    /\ effectPending
    /\ effectPending' = FALSE
    /\ discarded' = intersectingOutlets
    /\ outlets' = SelectSeq(initialOutlets, isValidOutlet)
    /\ intersectingOutlets' = intersectingOutlets \cup findIntersectingOutlets(outlets')
    /\ mapCenter' = IF Len(outlets') > 0
                    THEN <<outlets'[1].latitude, outlets'[1].longitude>>
                    ELSE mapCenter
    /\ UNCHANGED <<directory, initialOutlets>>
    /\ UNCHANGED <<homeVars, historyVars>>

\* Mutant of RunEffect: without a valid outlet the map centre is reset to
\* the default centre.
RunEffectResetCenter ==
    /\ effectPending
    /\ effectPending' = FALSE
    /\ discarded' = intersectingOutlets
    /\ outlets' = SelectSeq(initialOutlets, isValidOutlet)
    /\ intersectingOutlets' = findIntersectingOutlets(outlets')
    /\ mapCenter' = IF Len(outlets') > 0
                    THEN <<outlets'[1].latitude, outlets'[1].longitude>>
                    ELSE DEFAULT_CENTER
    /\ UNCHANGED <<directory, initialOutlets>>
    /\ UNCHANGED <<homeVars, historyVars>>

\* useEffect(() => { ... }, [initialOutlets, findIntersectingOutlets])
RunEffect ==
    /\ effectPending
    /\ effectPending' = FALSE
    /\ discarded' = intersectingOutlets
    /\ IF Len(initialOutlets) > 0
       THEN LET validOutlets == SelectSeq(initialOutlets, isValidOutlet)
                intersecting == findIntersectingOutlets(validOutlets)
            IN  /\ outlets' = validOutlets
                /\ intersectingOutlets' = intersecting
                /\ mapCenter' = IF Len(validOutlets) > 0
                                THEN <<validOutlets[1].latitude, validOutlets[1].longitude>>
                                ELSE mapCenter
       ELSE /\ outlets' = <<>>
            /\ intersectingOutlets' = {}
            /\ mapCenter' = mapCenter
    /\ UNCHANGED <<directory, initialOutlets>>
    /\ UNCHANGED <<homeVars, historyVars>>

Next == ChangeOutlets \/ RunEffect

\* if (outlets.length === 0) return the 'No outlets found' view
showsEmptyView == Len(outlets) = 0

\* <Circle radius={5000}>, in metres
CIRCLE_RADIUS == 5000

OVERLAP_COLOR == "#ef4444"
NORMAL_COLOR == "#3b82f6"

\* pathOptions.color of an outlet's circle
circleColor(outlet) ==
    IF outlet.id \in intersectingOutlets THEN OVERLAP_COLOR ELSE NORMAL_COLOR

\* pathOptions.weight of an outlet's circle
circleWeight(outlet) ==
    IF outlet.id \in intersectingOutlets THEN 3 ELSE 2

\* Mutant of legendCount: the number of displayed outlets.
legendCountDisplayed == Len(outlets)

\* {intersectingOutlets.size} outlets with overlaps
legendCount == Cardinality(intersectingOutlets)

Init == Mount(CoreDirectory) /\ HomeInitial
Spec == Init /\ [][Next]_vars

InitInvalid == Mount(InvalidDirectory) /\ HomeInitial
SpecInvalid == InitInvalid /\ [][Next]_vars

InitRange == Mount(RangeDirectory) /\ HomeInitial
SpecRange == InitRange /\ [][Next]_vars

InitMixed == Mount(MixedDirectory) /\ HomeInitial
SpecMixed == InitMixed /\ [][Next]_vars


---------------------------------------------------------------------------
(* The Home page *)

\* The most handler invocations suspended at an await at once
MaxRequests == 2

\* What the user types into the scrape input
SearchTerms == {"", " ", "Kuala Lumpur"}

\* searchTerm.trim()
trim(str) == IF str = " " THEN "" ELSE str

\* What the user types into the AI input
AIQueries == {"", "Which outlets have a drive-thru?", "Which outlets open 24 hours?"}

\* result.response of the AI endpoint
AnswerTo(query) == "Answer to: " \o query

OutletById(id) == CHOOSE o \in CoreDirectory : o.id = id

\* data.outlets of the outlets endpoint
ServerLists ==
    { <<>>, <<OutletById(1), OutletById(2)>>, <<OutletById(3)>> }

\* A handler invocation suspended at the await of a fetch
Request(handler, awaiting, query) ==
    [handler |-> handler, awaiting |-> awaiting, query |-> query]

Suspend(request) == requests (+) SetToBag({request})
Resume(request) == requests (-) SetToBag({request})
Awaiting(endpoint) == { r \in BagToSet(requests) : r.awaiting = endpoint }

\* React runs the pending effects of a render before the next event is
\* handled.
EffectsFlushed == ~effectPending

\* setOutlets(list): OutletMap is rendered with a new array
setOutlets(list) ==
    /\ initialOutlets' = list
    /\ effectPending' = TRUE
    /\ discarded' = {}
    /\ UNCHANGED <<directory, outlets, mapCenter, intersectingOutlets>>

\* Home after its first render and its mount effect, which calls
\* fetchOutlets(): the fetch of the outlets is in flight.  OutletMap has
\* been rendered with Home's empty list.
HomeMounted(terms, queries, lists) ==
    /\ Mount(CoreDirectory)
    /\ inputs = [terms |-> terms, queries |-> queries, lists |-> lists]
    /\ initialOutlets = <<>>
    /\ center = <<Num(31390), Num(1016869)>>
    /\ searchTerm = ""
    /\ isSearching = FALSE
    /\ isRescraping = FALSE
    /\ isFetchingOutlets = TRUE
    /\ error = null
    /\ aiSearchQuery = ""
    /\ isSearchingAI = FALSE
    /\ aiResponse = ""
    /\ searchError = null
    /\ requests = SetToBag({Request("fetchOutlets", "outlets", "")})
    /\ clearedByDelete = FALSE
    /\ lastQuery = ""

InitHome == HomeMounted(SearchTerms, AIQueries, ServerLists)

\* handleSearch, up to its await of the scrape request
handleSearch ==
    IF trim(searchTerm) = ""
    THEN UNCHANGED vars
    ELSE /\ BagCardinality(requests) < MaxRequests
         /\ isSearching' = TRUE
         /\ error' = null
         /\ requests' = Suspend(Request("handleSearch", "scrapeAndSave", ""))
         /\ clearedByDelete' = FALSE
         /\ UNCHANGED <<mapVars, lastQuery, inputs, center, searchTerm, isRescraping, isFetchingOutlets,
                        aiSearchQuery, isSearchingAI, aiResponse, searchError>>

\* handleAISearch, up to its await of the AI request
handleAISearch ==
    IF trim(aiSearchQuery) = ""
    THEN UNCHANGED vars
    ELSE /\ BagCardinality(requests) < MaxRequests
         /\ isSearchingAI' = TRUE
         /\ aiResponse' = ""
         /\ searchError' = null
         /\ requests' = Suspend(Request("handleAISearch", "aiSearch", aiSearchQuery))
         /\ lastQuery' = aiSearchQuery
         /\ UNCHANGED <<mapVars, clearedByDelete, inputs, center, searchTerm, isSearching, isRescraping,
                        isFetchingOutlets, error, aiSearchQuery>>

\* handleRescrape, up to its await of the delete request; confirmed is the
\* answer to confirm(...)
handleRescrape(confirmed) ==
    IF ~confirmed
    THEN UNCHANGED vars
    ELSE /\ BagCardinality(requests) < MaxRequests
         /\ isRescraping' = TRUE
         /\ error' = null
         /\ requests' = Suspend(Request("handleRescrape", "deleteAllOutlets", ""))
         /\ UNCHANGED <<mapVars, historyVars, inputs, center, searchTerm, isSearching, isFetchingOutlets,
                        aiSearchQuery, isSearchingAI, aiResponse, searchError>>

\* onChange of the scrape input
TypeSearchTerm ==
    /\ EffectsFlushed
    /\ \E term \in inputs.terms : searchTerm' = term
    /\ UNCHANGED <<mapVars, historyVars, inputs, center, isSearching, isRescraping, isFetchingOutlets, error,
                   aiSearchQuery, isSearchingAI, aiResponse, searchError, requests>>

\* onKeyPress of the scrape input: e.key === 'Enter' && handleSearch()
PressEnterInScrapeInput == EffectsFlushed /\ handleSearch

\* onClick of 'Search & Scrape', disabled={isSearching || isRescraping}
ClickSearchAndScrape ==
    EffectsFlushed /\ ~(isSearching \/ isRescraping) /\ handleSearch

\* onClick of 'Delete All & Rescrape', disabled={isSearching || isRescraping}
ClickDeleteAll ==
    /\ EffectsFlushed
    /\ ~(isSearching \/ isRescraping)
    /\ \E confirmed \in BOOLEAN : handleRescrape(confirmed)

\* onChange of the AI input
TypeAIQuery ==
    /\ EffectsFlushed
    /\ \E query \in inputs.queries : aiSearchQuery' = query
    /\ UNCHANGED <<mapVars, historyVars, inputs, center, searchTerm, isSearching, isRescraping,
                   isFetchingOutlets, error, isSearchingAI, aiResponse, searchError, requests>>

\* onKeyPress of the AI input: e.key === 'Enter' && handleAISearch()
PressEnterInAIInput == EffectsFlushed /\ handleAISearch

\* onClick of 'Ask AI', disabled={isSearchingAI}
ClickAskAI == EffectsFlushed /\ ~isSearchingAI /\ handleAISearch

\* onClick of an item of the outlet list:
\* setMapCenter({ lat: outlet.latitude, lng: outlet.longitude })
ClickOutlet ==
    /\ EffectsFlushed
    /\ \E index \in DOMAIN initialOutlets :
          center' = <<initialOutlets[index].latitude, initialOutlets[index].longitude>>
    /\ UNCHANGED <<mapVars, historyVars, inputs, searchTerm, isSearching, isRescraping, isFetchingOutlets, error,
                   aiSearchQuery, isSearchingAI, aiResponse, searchError, requests>>

\* handleSearch resumes with response.ok: alert, then fetchOutlets() runs up
\* to its await (setIsFetchingOutlets(true), the fetch of the outlets) and
\* handleSearch awaits it.
ScrapeSucceeds ==
    /\ EffectsFlushed
    /\ \E r \in Awaiting("scrapeAndSave") :
          requests' = (requests (-) SetToBag({r})) (+) SetToBag({Request(r.handler, "outlets", "")})
    /\ isFetchingOutlets' = TRUE
    /\ UNCHANGED <<mapVars, historyVars, inputs, center, searchTerm, isSearching, isRescraping, error,
                   aiSearchQuery, isSearchingAI, aiResponse, searchError>>

\* handleSearch resumes with a rejected fetch or a response that is not ok:
\* catch (setError, alert), finally (setIsSearching(false)).
ScrapeFails ==
    /\ EffectsFlushed
    /\ \E r \in Awaiting("scrapeAndSave") : requests' = Resume(r)
    /\ error' = Text
    /\ isSearching' = FALSE
    /\ UNCHANGED <<mapVars, historyVars, inputs, center, searchTerm, isRescraping, isFetchingOutlets,
                   aiSearchQuery, isSearchingAI, aiResponse, searchError>>

\* fetchOutlets resumes with data: setOutlets(data.outlets), finally
\* (setIsFetchingOutlets(false)); a handleSearch that awaited it goes on to
\* its finally (setIsSearching(false)).
OutletsSucceeds ==
    /\ EffectsFlushed
    /\ \E r \in Awaiting("outlets") :
          /\ requests' = Resume(r)
          /\ isSearching' = IF r.handler = "handleSearch" THEN FALSE ELSE isSearching
    /\ \E list \in inputs.lists : setOutlets(list)
    /\ isFetchingOutlets' = FALSE
    /\ UNCHANGED <<historyVars, inputs, center, searchTerm, isRescraping, error,
                   aiSearchQuery, isSearchingAI, aiResponse, searchError>>

\* fetchOutlets resumes with a rejected fetch, a response that is not ok or
\* an unreadable body: catch (setError), finally; fetchOutlets does not
\* rethrow, so a handleSearch that awaited it goes on to its finally.
OutletsFails ==
    /\ EffectsFlushed
    /\ \E r \in Awaiting("outlets") :
          /\ requests' = Resume(r)
          /\ isSearching' = IF r.handler = "handleSearch" THEN FALSE ELSE isSearching
    /\ error' = Text
    /\ isFetchingOutlets' = FALSE
    /\ UNCHANGED <<mapVars, historyVars, inputs, center, searchTerm, isRescraping,
                   aiSearchQuery, isSearchingAI, aiResponse, searchError>>

\* handleRescrape resumes with response.ok: alert(result.message),
\* setOutlets([]), finally (setIsRescraping(false)).
DeleteSucceeds ==
    /\ EffectsFlushed
    /\ \E r \in Awaiting("deleteAllOutlets") : requests' = Resume(r)
    /\ setOutlets(<<>>)
    /\ isRescraping' = FALSE
    /\ clearedByDelete' = TRUE
    /\ UNCHANGED <<lastQuery, inputs, center, searchTerm, isSearching, isFetchingOutlets, error,
                   aiSearchQuery, isSearchingAI, aiResponse, searchError>>

\* Mutant of DeleteFails: the outlets are cleared on failure too.
DeleteFailsClearing ==
    /\ EffectsFlushed
    /\ \E r \in Awaiting("deleteAllOutlets") : requests' = Resume(r)
    /\ setOutlets(<<>>)
    /\ error' = Text
    /\ isRescraping' = FALSE
    /\ UNCHANGED <<historyVars, inputs, center, searchTerm, isSearching, isFetchingOutlets,
                   aiSearchQuery, isSearchingAI, aiResponse, searchError>>

\* handleRescrape resumes with a rejected fetch or a response that is not ok:
\* catch (setError, alert), finally (setIsRescraping(false)).
DeleteFails ==
    /\ EffectsFlushed
    /\ \E r \in Awaiting("deleteAllOutlets") : requests' = Resume(r)
    /\ error' = Text
    /\ isRescraping' = FALSE
    /\ UNCHANGED <<mapVars, historyVars, inputs, center, searchTerm, isSearching, isFetchingOutlets,
                   aiSearchQuery, isSearchingAI, aiResponse, searchError>>

\* handleAISearch resumes with a result: setAiResponse(result.response),
\* finally (setIsSearchingAI(false)).
AISearchSucceeds ==
    /\ EffectsFlushed
    /\ \E r \in Awaiting("aiSearch") :
          /\ requests' = Resume(r)
          /\ aiResponse' = AnswerTo(r.query)
    /\ isSearchingAI' = FALSE
    /\ UNCHANGED <<mapVars, historyVars, inputs, center, searchTerm, isSearching, isRescraping,
                   isFetchingOutlets, error, aiSearchQuery, searchError>>

\* A handleAISearch without its finally block: a failed request leaves
\* isSearchingAI as it was.
AISearchFailsKeepingFlag ==
    /\ EffectsFlushed
    /\ \E r \in Awaiting("aiSearch") : requests' = Resume(r)
    /\ searchError' = Text
    /\ UNCHANGED <<mapVars, historyVars, inputs, center, searchTerm, isSearching, isRescraping,
                   isFetchingOutlets, error, aiSearchQuery, isSearchingAI, aiResponse>>

\* handleAISearch resumes with a rejected fetch, a response that is not ok or
\* an unreadable body: catch (setSearchError), finally.
AISearchFails ==
    /\ EffectsFlushed
    /\ \E r \in Awaiting("aiSearch") : requests' = Resume(r)
    /\ searchError' = Text
    /\ isSearchingAI' = FALSE
    /\ UNCHANGED <<mapVars, historyVars, inputs, center, searchTerm, isSearching, isRescraping,
                   isFetchingOutlets, error, aiSearchQuery, aiResponse>>

NextHome ==
    \/ RunEffect
    \/ TypeSearchTerm
    \/ PressEnterInScrapeInput
    \/ ClickSearchAndScrape
    \/ ClickDeleteAll
    \/ TypeAIQuery
    \/ PressEnterInAIInput
    \/ ClickAskAI
    \/ ClickOutlet
    \/ ScrapeSucceeds
    \/ ScrapeFails
    \/ OutletsSucceeds
    \/ OutletsFails
    \/ DeleteSucceeds
    \/ DeleteFails
    \/ AISearchSucceeds
    \/ AISearchFails

SpecHome == InitHome /\ [][NextHome]_vars

\* Every request eventually resolves or rejects, and React runs a pending
\* effect.  A handler resumes only between effects, so the fairness of the
\* resumptions is strong.
FairHome ==
    /\ WF_vars(RunEffect)
    /\ SF_vars(ScrapeSucceeds \/ ScrapeFails)
    /\ SF_vars(OutletsSucceeds \/ OutletsFails)
    /\ SF_vars(DeleteSucceeds \/ DeleteFails)
    /\ SF_vars(AISearchSucceeds \/ AISearchFails)

\* One search term, one question and one non-empty list of outlets
InitHomeFair ==
    HomeMounted({"", "Kuala Lumpur"}, {"", "Which outlets have a drive-thru?"},
                {<<>>, <<OutletById(1), OutletById(2)>>})

SpecHomeFair == InitHomeFair /\ [][NextHome]_vars /\ FairHome

---------------------------------------------------------------------------
(* Vocabulary of the properties *)

\* The largest catchment radius (km) the radius properties range over
MaxRadius == 6

Km(n) == n * 10^3

RangeOf(l) == { l[i] : i \in DOMAIN l }
IdsOf(l) == { l[i].id : i \in DOMAIN l }

\* l without its i-th element
Without(l, i) == [ k \in 1..(Len(l) - 1) |-> IF k < i THEN l[k] ELSE l[k + 1] ]

\* The reorderings of l
Reorderings(l) ==
    { [ i \in DOMAIN l |-> l[p[i]] ] :
        p \in { f \in [DOMAIN l -> DOMAIN l] : \A i, j \in DOMAIN l : i # j => f[i] # f[j] } }

\* The centre-to-centre distance of two outlets is a number below km kilometres.
Closer(a, b, km) ==
    LET d == DistanceTable[<<Position(a), Position(b)>>]
    IN  d.k = "num" /\ d.v < Km(km)

\* The centre-to-centre distance of two outlets is exactly km kilometres.
ExactlyAt(a, b, km) ==
    LET d == DistanceTable[<<Position(a), Position(b)>>]
    IN  d.k = "num" /\ d.v = Km(km)

\* A coordinate that is NaN, null or missing
IsAbsent(x) == x.k \in {"NaN", "null", "undefined"}
HasAbsentCoordinate(o) == IsAbsent(o.latitude) \/ IsAbsent(o.longitude)

\* A coordinate that is no number: a boolean or a string
IsNonNumeric(x) == x.k \in {"boolean", "string"}
HasNonNumericCoordinate(o) == IsNonNumeric(o.latitude) \/ IsNonNumeric(o.longitude)

\* Both coordinates are finite numbers inside -90..90 and -180..180.
InGeographicRange(o) ==
    /\ o.latitude.k = "num" /\ o.latitude.v >= -900000 /\ o.latitude.v <= 900000
    /\ o.longitude.k = "num" /\ o.longitude.v >= -1800000 /\ o.longitude.v <= 1800000

\* What the effect computes from a list alone
FreshFlags(l) == findIntersectingOutlets(SelectSeq(l, isValidOutlet))

---------------------------------------------------------------------------
(* Properties *)

\* C1: for a list of outlets with unique ids and valid coordinates, once the
\* effect has run an id is flagged if and only if some other outlet of the
\* list is less than 10 km away; nothing else is flagged.
C1_FlaggedIffNeighbourWithinTenKm ==
    (~effectPending /\ \A o \in RangeOf(initialOutlets) : InGeographicRange(o))
    => /\ \A i \in DOMAIN initialOutlets :
            initialOutlets[i].id \in intersectingOutlets
            <=> \E j \in DOMAIN initialOutlets :
                    j # i /\ Closer(initialOutlets[i], initialOutlets[j], 10)
       /\ intersectingOutlets \subseteq IdsOf(initialOutlets)

\* A chain: a-b and b-c overlap, a-c do not, and all three are flagged.
C1_ChainWitness ==
    /\ ~effectPending
    /\ \E a, b, c \in RangeOf(initialOutlets) :
          /\ Closer(a, b, 10) /\ Closer(b, c, 10) /\ ~Closer(a, c, 10)
          /\ {a.id, b.id, c.id} \subseteq intersectingOutlets
          /\ Cardinality({a.id, b.id, c.id}) = 3

\* C2: once the effect has run, both ids of every overlapping pair of
\* displayed outlets are flagged.
C2_BothOfAnOverlappingPairFlagged ==
    ~effectPending
    => \A i, j \in DOMAIN outlets :
          (i # j /\ Closer(outlets[i], outlets[j], 10))
          => (outlets[i].id \in intersectingOutlets /\ outlets[j].id \in intersectingOutlets)

\* An overlapping pair is flagged beside an outlet that is not.
C2_PairWitness ==
    /\ ~effectPending
    /\ \E a, b, c \in RangeOf(outlets) :
          /\ a # b /\ Closer(a, b, 10)
          /\ a.id \in intersectingOutlets /\ b.id \in intersectingOutlets
          /\ c.id \notin intersectingOutlets

\* C3: once the effect has run, the flagged set is what every reordering of
\* the input list yields.
C3_OrderIndependent ==
    ~effectPending
    => \A l \in Reorderings(initialOutlets) : FreshFlags(l) = intersectingOutlets

\* A list of three in which the overlapping pair is not adjacent.
C3_ReorderWitness ==
    /\ ~effectPending
    /\ Len(initialOutlets) = 3
    /\ Closer(initialOutlets[1], initialOutlets[3], 10)
    /\ initialOutlets[2].id \notin intersectingOutlets
    /\ intersectingOutlets = {initialOutlets[1].id, initialOutlets[3].id}

\* C4: once the effect has run, a displayed outlet that lies exactly 10 km
\* from another is flagged only if a third outlet is less than 10 km from
\* it, and both outlets of a pair less than 10 km apart are flagged.
C4_StrictBoundary ==
    ~effectPending
    => \A i, j \in DOMAIN outlets :
          i # j
          => /\ (ExactlyAt(outlets[i], outlets[j], 10)
                  /\ outlets[i].id \in intersectingOutlets)
                 => \E k \in DOMAIN outlets :
                        k \notin {i, j} /\ Closer(outlets[i], outlets[k], 10)
             /\ Closer(outlets[i], outlets[j], 10)
                 => {outlets[i].id, outlets[j].id} \subseteq intersectingOutlets

\* Two outlets exactly 10 km apart, alone: none is flagged.
C4_BoundaryWitness ==
    /\ ~effectPending
    /\ Len(outlets) = 2
    /\ ExactlyAt(outlets[1], outlets[2], 10)
    /\ intersectingOutlets = {}

\* C5: once the effect has run, an outlet with a NaN, null or missing
\* coordinate is not flagged, and the flagged set is the one the list
\* without that outlet yields.
C5_AbsentCoordinateExcluded ==
    ~effectPending
    => \A i \in DOMAIN initialOutlets :
          HasAbsentCoordinate(initialOutlets[i])
          => /\ initialOutlets[i].id \notin intersectingOutlets
             /\ intersectingOutlets = FreshFlags(Without(initialOutlets, i))

\* A list with an absent coordinate whose valid outlets are flagged.
C5_MixedListWitness ==
    /\ ~effectPending
    /\ \E o \in RangeOf(initialOutlets) : HasAbsentCoordinate(o)
    /\ intersectingOutlets # {}

\* C6: once the effect has run, every outlet of the input whose coordinates
\* are finite and in range (0 included) is displayed, and is flagged when
\* another such outlet is less than 10 km away.
C6_InRangeOutletEligible ==
    ~effectPending
    => \A i \in DOMAIN initialOutlets :
          InGeographicRange(initialOutlets[i])
          => /\ initialOutlets[i] \in RangeOf(outlets)
             /\ (\E j \in DOMAIN initialOutlets :
                    /\ j # i
                    /\ InGeographicRange(initialOutlets[j])
                    /\ Closer(initialOutlets[i], initialOutlets[j], 10))
                => initialOutlets[i].id \in intersectingOutlets

\* C7: once the effect has run, an outlet of the input whose coordinates are
\* out of range or not finite is not flagged, is not the map centre, and
\* flags no other outlet.
C7_OutOfRangeOutletIgnored ==
    ~effectPending
    => \A i \in DOMAIN initialOutlets :
          ~InGeographicRange(initialOutlets[i])
          => /\ initialOutlets[i].id \notin intersectingOutlets
             /\ mapCenter # Position(initialOutlets[i])
             /\ intersectingOutlets \ {initialOutlets[i].id}
                    \subseteq FreshFlags(Without(initialOutlets, i))

\* C8: once the effect has run on a list with at most one valid outlet,
\* nothing is flagged.
C8_FewerThanTwoValidOutlets ==
    (~effectPending
       /\ Cardinality({ i \in DOMAIN initialOutlets :
                          ~HasAbsentCoordinate(initialOutlets[i]) }) <= 1)
    => intersectingOutlets = {}

\* One valid outlet among outlets with absent coordinates.
C8_SingleValidWitness ==
    /\ ~effectPending
    /\ Len(initialOutlets) >= 2
    /\ Cardinality({ i \in DOMAIN initialOutlets :
                       ~HasAbsentCoordinate(initialOutlets[i]) }) = 1
    /\ intersectingOutlets = {}

\* C9: once the effect has run, the displayed list and the flagged set are
\* those the latest input alone yields, whatever was flagged before.
C9_ReplacedWholesale ==
    ~effectPending
    => /\ intersectingOutlets = FreshFlags(initialOutlets)
       /\ outlets = SelectSeq(initialOutlets, isValidOutlet)

\* An outlet flagged under the previous input, still in the list, no
\* longer flagged.
C9_StaleFlagDroppedWitness ==
    /\ ~effectPending
    /\ \E id \in discarded : id \in IdsOf(outlets) /\ id \notin intersectingOutlets

\* C10: for the displayed list and radii r1 <= r2, the set flagged with
\* radius r1 is a subset of the set flagged with radius r2.
C10_MonotoneInRadius ==
    \A r1, r2 \in 1..MaxRadius :
        r1 <= r2 => intersectingWithin(outlets, r1) \subseteq intersectingWithin(outlets, r2)

\* A list that a smaller radius flags in part and the radius in use flags
\* further.
C10_GrowthWitness ==
    /\ ~effectPending
    /\ intersectingOutlets = intersectingWithin(outlets, catchmentRadius)
    /\ \E r1 \in 1..MaxRadius :
          /\ r1 < catchmentRadius
          /\ intersectingWithin(outlets, r1) # {}
          /\ intersectingWithin(outlets, r1) # intersectingOutlets

\* C11: once the effect has run, every record of the input whose latitude
\* or longitude is missing, null, NaN or not a number has been dropped: it is
\* not displayed, not flagged, and the flagged set is the one the list
\* without it yields.
C11_NonNumericRecordDropped ==
    ~effectPending
    => \A i \in DOMAIN initialOutlets :
          (HasAbsentCoordinate(initialOutlets[i]) \/ HasNonNumericCoordinate(initialOutlets[i]))
          => /\ initialOutlets[i] \notin RangeOf(outlets)
             /\ initialOutlets[i].id \notin intersectingOutlets
             /\ intersectingOutlets = FreshFlags(Without(initialOutlets, i))

\* C12: once the effect has run, the 'No outlets found' view is shown if
\* and only if the input list is empty.
C12_EmptyViewIffEmptyInput ==
    ~effectPending => (showsEmptyView <=> Len(initialOutlets) = 0)

\* C13: whenever the map is rendered, an outlet's circle has the overlapping
\* colour and weight exactly when its id is flagged, the circle radius in
\* metres is the catchment radius, and the legend count is the number of
\* displayed outlets drawn in the overlapping style.
C13_RenderingMatchesFlags ==
    ~showsEmptyView
    => /\ \A i \in DOMAIN outlets :
            /\ circleColor(outlets[i]) = OVERLAP_COLOR <=> outlets[i].id \in intersectingOutlets
            /\ circleWeight(outlets[i]) = 3 <=> outlets[i].id \in intersectingOutlets
       /\ CIRCLE_RADIUS = Km(catchmentRadius)
       /\ legendCount = Cardinality({ i \in DOMAIN outlets :
                                        circleColor(outlets[i]) = OVERLAP_COLOR })

\* A map with two circles in the overlapping style and one in the normal style.
C13_MixedStylesWitness ==
    /\ ~effectPending
    /\ legendCount = 2
    /\ \E i \in DOMAIN outlets : circleColor(outlets[i]) = NORMAL_COLOR

\* The haversine distance on a sphere of radius 6371 km between the outlets
\* of CoreDirectory, by id, computed in double precision and rounded to metres.
ReferenceMetres ==
    [ ij \in (1..5) \X (1..5) |->
        LET lo == IF ij[1] < ij[2] THEN ij[1] ELSE ij[2]
            hi == IF ij[1] < ij[2] THEN ij[2] ELSE ij[1]
        IN  CASE lo = hi -> 0
              [] lo = 1 /\ hi = 2 -> 1422
              [] lo = 1 /\ hi = 3 -> 10001
              [] lo = 1 /\ hi = 4 -> 10000
              [] lo = 1 /\ hi = 5 -> 294404
              [] lo = 2 /\ hi = 3 -> 8963
              [] lo = 2 /\ hi = 4 -> 8963
              [] lo = 2 /\ hi = 5 -> 294063
              [] lo = 3 /\ hi = 4 -> 11
              [] lo = 3 /\ hi = 5 -> 298962
              [] lo = 4 /\ hi = 5 -> 298972 ]

\* C15: for every two outlets of the input, calculateDistance gives the same
\* number in both directions, 0 from a point to itself, never a negative
\* number, and the haversine distance for radius 6371 km to within 2 m.
C15_DistanceSymmetricAndNonNegative ==
    \A i, j \in DOMAIN initialOutlets :
        LET p == Position(initialOutlets[i])
            q == Position(initialOutlets[j])
            d == DistanceTable[<<p, q>>]
        IN  /\ d = DistanceTable[<<q, p>>]
            /\ DistanceTable[<<p, p>>] = Num(0)
            /\ d.k = "num" /\ d.v >= 0
            /\ Abs(d.v - ReferenceMetres[<<initialOutlets[i].id, initialOutlets[j].id>>]) <= 2

\* Two outlets of the input some 294 km apart, at different latitudes and
\* longitudes.
C15_FarPairWitness ==
    \E i, j \in DOMAIN initialOutlets :
        /\ initialOutlets[i].latitude # initialOutlets[j].latitude
        /\ initialOutlets[i].longitude # initialOutlets[j].longitude
        /\ ~Closer(initialOutlets[i], initialOutlets[j], 100)

\* C18: whenever the map is rendered, every displayed outlet passes the
\* validity filter and the flagged set is the overlap set of the displayed
\* list.
C18_RenderedMapIsFilteredAndFlagged ==
    ~showsEmptyView
    => /\ \A i \in DOMAIN outlets : isValidOutlet(outlets[i])
       /\ intersectingOutlets = findIntersectingOutlets(outlets)

\* C19: a run of the effect sets the map centre to the position of the first
\* valid outlet of the input, and leaves it as it was when the input is
\* empty or has no valid outlet.
C19_MapCentreFrame ==
    [][ (effectPending /\ ~effectPending')
        => LET valid == SelectSeq(initialOutlets, isValidOutlet)
           IN  mapCenter' = IF Len(valid) > 0 THEN Position(valid[1]) ELSE mapCenter ]_vars

\* After a non-empty input without a valid outlet, the map centre is still
\* the one an earlier input set.
C19_CentreKeptWitness ==
    /\ ~effectPending
    /\ Len(initialOutlets) > 0
    /\ SelectSeq(initialOutlets, isValidOutlet) = <<>>
    /\ mapCenter # DEFAULT_CENTER

\* C14: a click on an outlet of the page's list leaves the map centred on
\* that outlet, the centre the page passes as the `center` prop.
C14_ClickedOutletBecomesMapCentre ==
    [][ClickOutlet => mapCenter' = center']_vars

\* C16: while a handleSearch whose scrape request succeeded awaits its
\* refresh of the outlets, isSearching is true.
C16_SearchingUntilRefreshSettled ==
    (\E r \in Awaiting("outlets") : r.handler = "handleSearch") => isSearching

\* C17: the step that handles a failed scrape, delete-all, outlet-fetch or
\* AI-search request sets error (searchError for the AI search) to a
\* message, sets the in-progress flag of the request to false, and leaves
\* the page's outlet list and the displayed outlets as they were.
C17_FailedRequestHandled ==
    [][ /\ ScrapeFails => (error' = Text /\ ~isSearching')
        /\ DeleteFails => (error' = Text /\ ~isRescraping')
        /\ OutletsFails => (error' = Text /\ ~isFetchingOutlets')
        /\ AISearchFails => (searchError' = Text /\ ~isSearchingAI')
        /\ (ScrapeFails \/ DeleteFails \/ OutletsFails \/ AISearchFails)
            => (initialOutlets' = initialOutlets /\ outlets' = outlets) ]_vars

\* Both error messages are set, no request is in progress, and the outlets
\* fetched earlier are still displayed.
C17_ErrorsShownListKeptWitness ==
    /\ error = Text /\ searchError = Text
    /\ ~isSearching /\ ~isRescraping /\ ~isFetchingOutlets /\ ~isSearchingAI
    /\ requests = EmptyBag
    /\ ~effectPending
    /\ Len(initialOutlets) = 2 /\ outlets = initialOutlets

\* C20: isSearching and isRescraping are never both true, and a scrape
\* request and a delete-all request are never both in flight.
C20_ScrapeAndDeleteExclusive ==
    /\ ~(isSearching /\ isRescraping)
    /\ ~(Awaiting("scrapeAndSave") # {} /\ Awaiting("deleteAllOutlets") # {})

\* C21: from a successful delete-all until the user starts a new scrape,
\* the page's outlet list is empty.
C21_ClearedListStaysEmpty ==
    clearedByDelete => initialOutlets = <<>>

\* C22: when no AI request is in flight, an AI response on display is the
\* response to the query submitted last.
C22_ResponseIsToLatestQuery ==
    (Awaiting("aiSearch") = {} /\ aiResponse # "") => aiResponse = AnswerTo(lastQuery)

\* C23: an AI response and an AI search error are never set together, and
\* isSearchingAI is true exactly while an AI request is in flight.
C23_AIOutcomeExclusive ==
    /\ ~(aiResponse # "" /\ searchError # null)
    /\ isSearchingAI <=> Awaiting("aiSearch") # {}

\* C24: if every request eventually settles, each of isSearching,
\* isRescraping, isFetchingOutlets and isSearchingAI that is true is
\* eventually false.
C24_FlagsEventuallyCleared ==
    /\ isSearching ~> ~isSearching
    /\ isRescraping ~> ~isRescraping
    /\ isFetchingOutlets ~> ~isFetchingOutlets
    /\ isSearchingAI ~> ~isSearchingAI

\* A scrape awaiting its refresh and an AI search are in progress at once.
C24_FlagsSetWitness ==
    isSearching /\ isFetchingOutlets /\ isSearchingAI

=============================================================================
